---- MODULE Spec2Model ----
(***************************************************************************)
(* Model of the example module of ai-projen's Python templates             *)
(* (plugins-old/languages/python/templates/example.py): the User           *)
(* dataclass, calculate_discount, validate_email and process_user_data.    *)
(*                                                                         *)
(* Python values are tagged records, strings are sequences of one-         *)
(* character strings (so that split, membership and length are computed),  *)
(* and the float arguments of calculate_discount are exact rationals       *)
(* n/d: the model does not cover NaN, infinities or rounding.              *)
(***************************************************************************)
EXTENDS Integers, Sequences, FiniteSets, TLC

VARIABLES
    pc,                \* "start" before the call under check, "done" after it
    op,                \* the operation that made the last step
    price,             \* calculate_discount's arguments
    discount_percent,
    max_discount,
    email,             \* validate_email's argument
    user_data,         \* process_user_data's argument (a dict)
    returned,          \* the value the last call returned, None if it raised
    raised,            \* the exception the last call raised, None if it returned
    user               \* the User object the caller holds, None before any

vars == <<pc, op, price, discount_percent, max_discount, email, user_data,
          returned, raised, user>>

\* ---------------------------------------------------------------- bounds

MaxPrice == 4          \* prices are the halves from -2 to MaxPrice (and 100)
MaxCap == 3            \* caps are the integers from -MaxCap to MaxCap (and 30)
MaxLen == 4            \* validate_email is run on every string of <= MaxLen characters
MaxEmailLen == 3       \* the email strings a user_data dict may carry

\* ---------------------------------------------------------- Python values

None == [t |-> "None"]
PyInt(i) == [t |-> "int", v |-> i]
PyStr(s) == [t |-> "str", v |-> s]
PyBool(b) == [t |-> "bool", v |-> b]

\* ------------------------------------------------------ exact arithmetic

Rat(n, d) == [n |-> n, d |-> d]               \* the number n/d, d > 0
RatOf(i) == Rat(i, 1)
RLt(a, b) == a.n * b.d < b.n * a.d
RLe(a, b) == a.n * b.d <= b.n * a.d
RMul(a, b) == Rat(a.n * b.n, a.d * b.d)
RSub(a, b) == Rat(a.n * b.d - b.n * a.d, a.d * b.d)
RDiv(a, b) == IF b.n > 0 THEN Rat(a.n * b.d, a.d * b.n)
                         ELSE Rat(-(a.n * b.d), -(a.d * b.n))   \* b.n # 0
\* Python's min(a, b): b only when b < a
RMin(a, b) == IF RLt(b, a) THEN b ELSE a

\* ------------------------------------------------------------ exceptions

ValueError(msg, arg) == [type |-> "ValueError", msg |-> msg, arg |-> arg]
Return(v) == [ret |-> v, exc |-> None]
Raise(e) == [ret |-> None, exc |-> e]

PriceNegative == "Price cannot be negative"
PercentRange == "Discount percent must be between 0 and 100"
MissingField == "Missing required field: "
InvalidEmail == "Invalid email format: "
InvalidLiteral == "invalid literal for int() with base 10: "

\* ---------------------------------------------------- calculate_discount

calculate_discount_no_cap(p, pct, cap) ==
    IF RLt(p, RatOf(0)) THEN Raise(ValueError(PriceNegative, None))
    ELSE IF ~(RLe(RatOf(0), pct) /\ RLe(pct, RatOf(100)))
    THEN Raise(ValueError(PercentRange, None))
    ELSE Return(RSub(p, RMul(p, RDiv(pct, RatOf(100)))))

calculate_discount_open_range(p, pct, cap) ==
    IF RLt(p, RatOf(0)) THEN Raise(ValueError(PriceNegative, None))
    ELSE IF ~(RLt(RatOf(0), pct) /\ RLt(pct, RatOf(100)))
    THEN Raise(ValueError(PercentRange, None))
    ELSE LET discount_amount == RMul(p, RDiv(pct, RatOf(100)))
             capped == IF cap # None THEN RMin(discount_amount, cap)
                                     ELSE discount_amount
         IN  Return(RSub(p, capped))

calculate_discount(p, pct, cap) ==
    IF RLt(p, RatOf(0)) THEN Raise(ValueError(PriceNegative, None))
    ELSE IF ~(RLe(RatOf(0), pct) /\ RLe(pct, RatOf(100)))
    THEN Raise(ValueError(PercentRange, None))
    ELSE LET discount_amount == RMul(p, RDiv(pct, RatOf(100)))
             capped == IF cap # None THEN RMin(discount_amount, cap)
                                     ELSE discount_amount
         IN  Return(RSub(p, capped))

Prices == {Rat(n, 2) : n \in (-4) .. (2 * MaxPrice)} \cup {RatOf(100)}
Percents == {RatOf(i) : i \in {-1, 0, 20, 25, 50, 100, 101, 150}}
                \cup {Rat(1, 2), Rat(201, 2), Rat(-1, 2)}
Caps == {None} \cup {RatOf(i) : i \in (-MaxCap) .. MaxCap} \cup {RatOf(30)}

InitDiscount ==
    /\ pc = "start" /\ op = "none"
    /\ price \in Prices
    /\ discount_percent \in Percents
    /\ max_discount \in Caps
    /\ email = None /\ user_data = None
    /\ returned = None /\ raised = None /\ user = None

CalculateDiscount ==
    /\ pc = "start"
    /\ LET out == calculate_discount(price, discount_percent, max_discount)
       IN  returned' = out.ret /\ raised' = out.exc
    /\ pc' = "done" /\ op' = "calculate_discount"
    /\ UNCHANGED <<price, discount_percent, max_discount, email, user_data, user>>

NextDiscount == CalculateDiscount
SpecDiscount == InitDiscount /\ [][NextDiscount]_vars

\* ------------------------------------------------------------- strings

Alphabet == {"a", "@", "."}
Strings(n) == UNION {[1 .. k -> Alphabet] : k \in 0 .. n}

\* c in s
Contains(s, c) == \E i \in 1 .. Len(s) : s[i] = c
\* s.find(c) for a c that s contains
Find(s, c) == CHOOSE i \in 1 .. Len(s) : s[i] = c /\ \A j \in 1 .. (i - 1) : s[j] # c

\* s.split(sep): the list of the parts between the occurrences of sep
RECURSIVE Split(_, _)
Split(s, sep) ==
    IF ~Contains(s, sep) THEN <<s>>
    ELSE <<SubSeq(s, 1, Find(s, sep) - 1)>>
             \o Split(SubSeq(s, Find(s, sep) + 1, Len(s)), sep)

\* -------------------------------------------------------- validate_email

validate_email_any_domain(e) ==
    IF Len(e) = 0 \/ ~Contains(e, "@") THEN FALSE
    ELSE LET parts == Split(e, "@")
         IN  IF Len(parts) # 2 THEN FALSE
             ELSE Len(parts[1]) > 0

validate_email(e) ==
    IF Len(e) = 0 \/ ~Contains(e, "@") THEN FALSE
    ELSE LET parts == Split(e, "@")
         IN  IF Len(parts) # 2 THEN FALSE
             ELSE LET local == parts[1]
                      domain == parts[2]
                  IN  Len(local) > 0 /\ Contains(domain, ".")

InitEmail ==
    /\ pc = "start" /\ op = "none"
    /\ email \in Strings(MaxLen)
    /\ price = None /\ discount_percent = None /\ max_discount = None
    /\ user_data = None
    /\ returned = None /\ raised = None /\ user = None

ValidateEmail ==
    /\ pc = "start"
    /\ returned' = PyBool(validate_email(email))
    /\ raised' = None
    /\ pc' = "done" /\ op' = "validate_email"
    /\ UNCHANGED <<price, discount_percent, max_discount, email, user_data, user>>

NextEmail == ValidateEmail
SpecEmail == InitEmail /\ [][NextEmail]_vars

\* ------------------------------------------------- str(), int(), bool()

DigitChars == <<"0", "1", "2", "3", "4", "5", "6", "7", "8", "9">>
IsDigit(c) == \E d \in 1 .. 10 : DigitChars[d] = c
DigitValue(c) == (CHOOSE d \in 1 .. 10 : DigitChars[d] = c) - 1

RECURSIVE NatToStr(_)
NatToStr(n) ==
    IF n < 10 THEN <<DigitChars[n + 1]>>
    ELSE NatToStr(n \div 10) \o <<DigitChars[(n % 10) + 1]>>

RECURSIVE ParseNat(_)
ParseNat(s) ==
    IF Len(s) = 0 THEN 0
    ELSE ParseNat(SubSeq(s, 1, Len(s) - 1)) * 10 + DigitValue(s[Len(s)])

\* s.strip() for the one whitespace character of the model, " "
RECURSIVE Strip(_)
Strip(s) ==
    IF Len(s) > 0 /\ s[1] = " " THEN Strip(Tail(s))
    ELSE IF Len(s) > 0 /\ s[Len(s)] = " " THEN Strip(SubSeq(s, 1, Len(s) - 1))
    ELSE s

\* str(x)
str(x) ==
    CASE x.t = "str" -> x.v
      [] x.t = "int" -> IF x.v < 0 THEN <<"-">> \o NatToStr(-x.v) ELSE NatToStr(x.v)
      [] x.t = "bool" -> IF x.v THEN <<"T", "r", "u", "e">>
                                ELSE <<"F", "a", "l", "s", "e">>

\* int(x): an int or a bool converts; a str must be, once stripped, an
\* optional sign and one or more digits (the model's strings hold no "_")
int(x) ==
    CASE x.t = "int" -> Return(PyInt(x.v))
      [] x.t = "bool" -> Return(PyInt(IF x.v THEN 1 ELSE 0))
      [] x.t = "str" ->
           LET s == Strip(x.v)
               signed == Len(s) > 0 /\ s[1] \in {"+", "-"}
               digits == IF signed THEN Tail(s) ELSE s
           IN  IF Len(digits) > 0 /\ \A i \in 1 .. Len(digits) : IsDigit(digits[i])
               THEN Return(PyInt(IF signed /\ s[1] = "-" THEN -ParseNat(digits)
                                                        ELSE ParseNat(digits)))
               ELSE Raise(ValueError(InvalidLiteral, x))

\* bool(x)
bool(x) ==
    CASE x.t = "bool" -> x.v
      [] x.t = "int" -> x.v # 0
      [] x.t = "str" -> Len(x.v) > 0

\* ------------------------------------------------------------------ User

Fields == {"id", "name", "email", "active"}
KeyChars == [id |-> <<"i", "d">>, name |-> <<"n", "a", "m", "e">>,
             email |-> <<"e", "m", "a", "i", "l">>,
             active |-> <<"a", "c", "t", "i", "v", "e">>]

\* the dataclass's generated __init__: active defaults to True
UserDefault == PyBool(TRUE)
User(id, name, mail, active) ==
    [t |-> "User", id |-> id, name |-> name, email |-> mail, active |-> active]

\* f"{self.name} ({self.email})"
display_name(self) ==
    PyStr(str(self.name) \o <<" ", "(">> \o str(self.email) \o <<")">>)

\* a method call: the value it returns and the object as the call leaves it
get_display_name_caching(self) ==
    [ret |-> display_name(self), self |-> [self EXCEPT !.name = display_name(self)]]

get_display_name(self) ==
    [ret |-> display_name(self), self |-> self]

\* ------------------------------------------------------ process_user_data

required_fields_reversed == <<"email", "name", "id">>
required_fields == <<"id", "name", "email">>

\* user_data.get(key, default)
Get(d, key, default) == IF key \in DOMAIN d THEN d[key] ELSE default

\* the constructor call of the return statement: its arguments are evaluated
\* in order, and int() may raise before any User exists
construct_user_inactive(d, mail) ==
    LET id == int(d["id"])
    IN  IF id.exc # None THEN Raise(id.exc)
        ELSE Return(User(id.ret, PyStr(str(d["name"])), PyStr(mail),
                         PyBool(bool(Get(d, "active", PyBool(FALSE))))))

construct_user_partial(d, mail) ==
    LET id == int(d["id"])
    IN  IF id.exc # None
        THEN Return([t |-> "User", name |-> PyStr(str(d["name"])), email |-> PyStr(mail)])
        ELSE Return(User(id.ret, PyStr(str(d["name"])), PyStr(mail),
                         PyBool(bool(Get(d, "active", PyBool(TRUE))))))

construct_user(d, mail) ==
    LET id == int(d["id"])
    IN  IF id.exc # None THEN Raise(id.exc)
        ELSE Return(User(id.ret, PyStr(str(d["name"])), PyStr(mail),
                         PyBool(bool(Get(d, "active", PyBool(TRUE))))))

\* the fields the loop over required_fields finds absent, in the loop's order
MissingRequired(d) == SelectSeq(required_fields, LAMBDA f : f \notin DOMAIN d)

process_user_data_unvalidated(d) ==
    IF MissingRequired(d) # <<>>
    THEN Raise(ValueError(MissingField, PyStr(KeyChars[Head(MissingRequired(d))])))
    ELSE construct_user(d, str(d["email"]))

process_user_data(d) ==
    IF MissingRequired(d) # <<>>
    THEN Raise(ValueError(MissingField, PyStr(KeyChars[Head(MissingRequired(d))])))
    ELSE LET mail == str(d["email"])
         IN  IF ~validate_email(mail)
             THEN Raise(ValueError(InvalidEmail, PyStr(mail)))
             ELSE construct_user(d, mail)

\* a dict: a function from the keys that are present
Absent == [t |-> "absent"]
Dict(id, name, mail, active) ==
    LET val == [id |-> id, name |-> name, email |-> mail, active |-> active]
    IN  [k \in {f \in Fields : val[f] # Absent} |-> val[k]]

IdValues == {PyInt(1), PyInt(0), PyStr(<<"1", "2">>), PyStr(<<"-", "3">>),
             PyStr(<<" ", "7">>), PyStr(<<"x">>), PyStr(<<>>), PyBool(TRUE)}
NameValues == {PyStr(<<"B", "o", "b">>), PyStr(<<>>), PyInt(7)}
EmailValues == {PyStr(s) : s \in Strings(MaxEmailLen)} \cup {PyInt(5), PyBool(TRUE)}
ActiveValues == {PyBool(TRUE), PyBool(FALSE), PyInt(0), PyInt(2), PyStr(<<>>),
                 PyStr(<<"n", "o">>)}

UserDatas ==
    {Dict(i, n, e, a) : i \in IdValues \cup {Absent}, n \in NameValues \cup {Absent},
                        e \in EmailValues \cup {Absent}, a \in ActiveValues \cup {Absent}}

InitUser ==
    /\ pc = "start" /\ op = "none"
    /\ user_data \in UserDatas
    /\ price = None /\ discount_percent = None /\ max_discount = None
    /\ email = None
    /\ returned = None /\ raised = None /\ user = None

\* user = process_user_data(user_data): no assignment when the call raises
ProcessUserData ==
    /\ pc = "start"
    /\ LET out == process_user_data(user_data)
       IN  /\ returned' = out.ret
           /\ raised' = out.exc
           /\ user' = IF out.exc = None THEN out.ret ELSE user
    /\ pc' = "done" /\ op' = "process_user_data"
    /\ UNCHANGED <<price, discount_percent, max_discount, email, user_data>>

NextUser == ProcessUserData
SpecUser == InitUser /\ [][NextUser]_vars

\* ------------------------------------------------- the life of a User

\* the dicts of the lifecycle runs
LifecycleDatas ==
    {Dict(i, n, e, a) : i \in {PyInt(1), PyStr(<<"x">>), Absent},
                        n \in {PyStr(<<"B", "o", "b">>), PyStr(<<>>)},
                        e \in {PyStr(<<"a", "@", ".">>), PyStr(<<"a", "@">>)},
                        a \in {PyBool(FALSE), Absent}}

\* the values a caller assigns to a field
AttrValues == {PyInt(9), PyStr(<<"x">>)}

InitLifecycle ==
    /\ pc = "start" /\ op = "none"
    /\ user_data \in LifecycleDatas
    /\ price = None /\ discount_percent = None /\ max_discount = None
    /\ email = None
    /\ returned = None /\ raised = None /\ user = None

\* user = User(id=..., name=..., email=...[, active=...]): the generated
\* __init__ stores its arguments as they are
UserInit ==
    /\ user = None
    /\ \E n \in {PyStr(<<"B", "o", "b">>), PyStr(<<>>)},
          a \in {UserDefault, PyBool(FALSE)} :
           user' = User(PyInt(1), n, PyStr(<<"a", "@", ".">>), a)
    /\ returned' = user' /\ raised' = None
    /\ op' = "User"
    /\ UNCHANGED <<pc, price, discount_percent, max_discount, email, user_data>>

\* user.get_display_name()
GetDisplayName ==
    /\ user # None
    /\ LET call == get_display_name(user)
       IN  returned' = call.ret /\ user' = call.self
    /\ raised' = None
    /\ op' = "get_display_name"
    /\ UNCHANGED <<pc, price, discount_percent, max_discount, email, user_data>>

\* user.<field> = value: the dataclass is not frozen, the assignment succeeds
SetAttr ==
    /\ user # None
    /\ \E f \in Fields, v \in AttrValues : user' = [user EXCEPT ![f] = v]
    /\ returned' = None /\ raised' = None
    /\ op' = "setattr"
    /\ UNCHANGED <<pc, price, discount_percent, max_discount, email, user_data>>

NextLifecycle == ProcessUserData \/ UserInit \/ GetDisplayName \/ SetAttr
SpecLifecycle == InitLifecycle /\ [][NextLifecycle]_vars

\* ================================================================ claims

IsNumber(x) == x # None /\ DOMAIN x = {"n", "d"}
REq(a, b) == a.n * b.d = b.n * a.d
ValidDiscountInput ==
    /\ RLe(RatOf(0), price)
    /\ RLe(RatOf(0), discount_percent) /\ RLe(discount_percent, RatOf(100))

\* C1 (as claimed): for price >= 0 and 0 <= discount_percent <= 100, whatever
\* max_discount is, calculate_discount returns r with 0 <= r <= price.
C1_ResultWithinPrice ==
    (pc = "done" /\ ValidDiscountInput) =>
        /\ IsNumber(returned)
        /\ RLe(RatOf(0), returned) /\ RLe(returned, price)

\* C2: calculate_discount raises ValueError exactly when price < 0 or
\* discount_percent is outside [0, 100]; otherwise, whatever max_discount is,
\* it returns a number and raises nothing.
C2_RaisesIffOutOfDomain ==
    pc = "done" =>
        /\ (raised # None) <=> ~ValidDiscountInput
        /\ raised # None => (raised.type = "ValueError" /\ returned = None)
        /\ raised = None => IsNumber(returned)

C2_Witness ==
    /\ pc = "done" /\ raised = None
    /\ REq(discount_percent, RatOf(100)) /\ REq(price, RatOf(0))
    /\ max_discount # None /\ RLt(max_discount, RatOf(0))

\* C3: on valid input calculate_discount returns price - price*percent/100
\* without a cap and price - min(price*percent/100, cap) with one; 0 percent
\* gives the price back, (100, 20, none) gives 80 and (100, 50, 30) gives 70.
C3_Expected ==
    LET amount == RDiv(RMul(price, discount_percent), RatOf(100))
    IN  IF max_discount = None THEN RSub(price, amount)
        ELSE IF RLe(amount, max_discount) THEN RSub(price, amount)
        ELSE RSub(price, max_discount)

C3_DiscountFormula ==
    /\ (pc = "done" /\ ValidDiscountInput) =>
          /\ IsNumber(returned) /\ REq(returned, C3_Expected)
          /\ (REq(discount_percent, RatOf(0)) /\ max_discount = None)
                => REq(returned, price)
    /\ REq(calculate_discount(RatOf(100), RatOf(20), None).ret, RatOf(80))
    /\ REq(calculate_discount(RatOf(100), RatOf(50), RatOf(30)).ret, RatOf(70))

C3_Witness ==
    /\ pc = "done"
    /\ REq(price, RatOf(100)) /\ REq(discount_percent, RatOf(50))
    /\ max_discount = RatOf(30) /\ IsNumber(returned) /\ REq(returned, RatOf(70))

\* C4: validate_email returns True exactly for the strings with exactly one
\* "@", a non-empty part before it and a "." somewhere after it, returns
\* False for every other string, and never raises.
C4_Shape(e) ==
    /\ Cardinality({i \in 1 .. Len(e) : e[i] = "@"}) = 1
    /\ \E i \in 2 .. Len(e) : e[i] = "@" /\ \E j \in (i + 1) .. Len(e) : e[j] = "."

C4_ValidIffShape ==
    pc = "done" => (raised = None /\ returned = PyBool(C4_Shape(email)))

C4_Witness ==
    /\ pc = "done" /\ email = <<"a", "@", "@", ".">>
    /\ returned = PyBool(FALSE) /\ raised = None

\* C5: a dict lacking a required key makes process_user_data raise the
\* missing-field error naming the first absent key in the order id, name,
\* email, whatever else the dict holds and whatever its email is.
C5_FirstAbsent ==
    IF "id" \notin DOMAIN user_data THEN <<"i", "d">>
    ELSE IF "name" \notin DOMAIN user_data THEN <<"n", "a", "m", "e">>
    ELSE <<"e", "m", "a", "i", "l">>

C5_MissingFieldFirst ==
    (pc = "done" /\ {"id", "name", "email"} \ DOMAIN user_data # {}) =>
        /\ returned = None
        /\ raised = ValueError(MissingField, PyStr(C5_FirstAbsent))

C5_Witness ==
    /\ pc = "done"
    /\ DOMAIN user_data = {"id", "email", "active"}
    /\ ~validate_email(str(user_data["email"]))
    /\ raised = ValueError(MissingField, PyStr(<<"n", "a", "m", "e">>))

\* C6: with id, name and email all present, process_user_data raises the
\* invalid-email error carrying str(email) exactly when validate_email of
\* that string is False, and then returns no record.
C6_InvalidEmailRaised ==
    (pc = "done" /\ {"id", "name", "email"} \subseteq DOMAIN user_data) =>
        LET mail == str(user_data["email"])
        IN  /\ ~validate_email(mail) =>
                  (raised = ValueError(InvalidEmail, PyStr(mail))
                      /\ returned = None /\ user = None)
            /\ validate_email(mail) =>
                  (raised = None \/ raised.msg # InvalidEmail)

C6_Witness ==
    /\ pc = "done"
    /\ {"id", "name", "email"} \subseteq DOMAIN user_data
    /\ user_data["email"] = PyInt(5)
    /\ raised = ValueError(InvalidEmail, PyStr(<<"5">>))

\* C7: a record returned by process_user_data has id = int(input id),
\* name = str(input name), email = str(input email), and active True when
\* the dict has no active key, bool(input active) otherwise.
C7_FieldsCoerced ==
    (pc = "done" /\ returned # None) =>
        /\ returned.id = int(user_data["id"]).ret
        /\ returned.name = PyStr(str(user_data["name"]))
        /\ returned.email = PyStr(str(user_data["email"]))
        /\ returned.active = IF "active" \in DOMAIN user_data
                             THEN PyBool(bool(user_data["active"]))
                             ELSE PyBool(TRUE)

C7_Witness ==
    /\ pc = "done" /\ returned # None
    /\ "active" \notin DOMAIN user_data
    /\ user_data["id"] = PyStr(<<"1", "2">>)
    /\ user_data["name"] = PyInt(7)
    /\ returned = User(PyInt(12), PyStr(<<"7">>), returned.email, PyBool(TRUE))

\* C8 (as claimed): every record process_user_data returns has a non-empty
\* name, an email that validate_email accepts and an integer id.
C8_RecordInvariant ==
    (pc = "done" /\ returned # None) =>
        /\ returned.name.t = "str" /\ Len(returned.name.v) > 0
        /\ returned.email.t = "str" /\ validate_email(returned.email.v)
        /\ returned.id.t = "int" /\ returned.id.v \in Int

\* C9: a call of process_user_data ends either with a record whose four
\* fields are all set and no error, or with an error and no record at all.
C9_FullRecord(r) ==
    /\ DOMAIN r = Fields \cup {"t"} /\ r.t = "User"
    /\ r.id.t = "int" /\ r.name.t = "str" /\ r.email.t = "str" /\ r.active.t = "bool"

C9_AllOrNothing ==
    pc = "done" =>
        \/ raised = None /\ returned # None /\ C9_FullRecord(returned) /\ user = returned
        \/ raised # None /\ returned = None /\ user = None

C9_Witness ==
    /\ pc = "done"
    /\ {"id", "name", "email"} \subseteq DOMAIN user_data
    /\ validate_email(str(user_data["email"]))
    /\ raised # None /\ raised.msg = InvalidLiteral
    /\ returned = None /\ user = None

\* C10 (as claimed): a User comes into being only through process_user_data
\* and no later step changes its id, name, email or active.
C10_OnlyBuiltNeverChanged ==
    [][op' # "process_user_data" => user' = user]_vars

\* C10 (amended): get_display_name leaves the four fields of the User as
\* they were; the User changes only by process_user_data returning a new
\* one, by a direct call of the constructor, or by an assignment to a field.
C10_DisplayNameReadOnly ==
    [][/\ op' = "get_display_name" => (user # None /\ user' = user)
       /\ user' # user => op' \in {"process_user_data", "User", "setattr"}]_vars

C10_Witness ==
    /\ op = "get_display_name"
    /\ user = User(PyInt(1), PyStr(<<"B", "o", "b">>), PyStr(<<"a", "@", ".">>), PyBool(TRUE))
    /\ returned = PyStr(<<"B", "o", "b", " ", "(", "a", "@", ".", ")">>)

====
